---- MODULE Spec2Model ----
(***************************************************************************)
(* The jots ledger API (src/api/app.py): the four module-level stores, the *)
(* Flask handlers that read and write them, and the helpers they call.     *)
(*                                                                         *)
(* Spec      : the handlers run one after the other, each as one step, on  *)
(*             every request of the input families.                        *)
(* SpecRetry : the same handlers on the client's requests, the request     *)
(*             handled last being kept, so that a retry can be told.       *)
(* SpecConc  : credit and charge handlers run in parallel worker threads,  *)
(*             one step per access to the shared stores.                   *)
(***************************************************************************)
EXTENDS Integers, Sequences, FiniteSets, TLC

VARIABLES CUSTOMERS, CHARGES, TRANSACTIONS, IDEMPOTENCY_STORE,
          clock, request, response, threads

stores == <<CUSTOMERS, CHARGES, TRANSACTIONS, IDEMPOTENCY_STORE>>
vars == <<CUSTOMERS, CHARGES, TRANSACTIONS, IDEMPOTENCY_STORE,
          clock, request, response, threads>>

(***************************************************************************)
(* Bounds of the model.                                                    *)
(***************************************************************************)
MaxCustomers == 2
MaxTxns == 2
NumThreads == 2
MaxConcTxns == 3

(***************************************************************************)
(* JSON values as they arrive in a body, a header or a query string.       *)
(* t is the Python type: "null" (None / absent), "int", "str", "id" (the   *)
(* string form of a uuid, i being the uuid), "list" (a JSON array: neither *)
(* int nor str, and unhashable).  Strings are sequences of characters.     *)
(***************************************************************************)
JNull == [t |-> "null", i |-> 0, s |-> <<>>]
JInt(n) == [t |-> "int", i |-> n, s |-> <<>>]
JStr(str) == [t |-> "str", i |-> 0, s |-> str]
JId(n) == [t |-> "id", i |-> n, s |-> <<>>]
JList == [t |-> "list", i |-> 0, s |-> <<>>]

IsWhitespace(ch) == ch = " "

RECURSIVE lstrip(_)
lstrip(str) ==
    IF str # <<>> /\ IsWhitespace(Head(str)) THEN lstrip(Tail(str)) ELSE str

RECURSIVE rstrip(_)
rstrip(str) ==
    IF str # <<>> /\ IsWhitespace(str[Len(str)])
    THEN rstrip(SubSeq(str, 1, Len(str) - 1))
    ELSE str

\* str.strip()
strip(str) == rstrip(lstrip(str))

\* ch in str
Contains(str, ch) == \E k \in 1..Len(str) : str[k] = ch

\* isinstance(v, str): uuid strings are strings too
IsStr(v) == v.t \in {"str", "id"}

\* isinstance(v, int)
IsInt(v) == v.t = "int"

\* the characters of a string value (a uuid string has no blanks and no '@')
Chars(v) == IF v.t = "id" THEN <<"u">> ELSE v.s

(***************************************************************************)
(* iso_utc_now(): datetime.utcnow().isoformat() + "Z".  A time is a count  *)
(* of microseconds; isoformat() prints the seconds, then '.' and the       *)
(* microseconds of the second, and leaves that fractional part out when    *)
(* it is 0.  The text is a sequence of character codes, one code standing  *)
(* for each fixed-width group of digits, compared as Python compares       *)
(* strings.                                                                *)
(***************************************************************************)
UsecPerSec == 1000000

\* the readings of the clock the model draws, in microseconds: one inside a
\* second and one on a full second, so that two records can carry the same
\* text or two texts in the order of their readings
Times == {1, UsecPerSec}

CodeDot == 46
CodeZero == 48
CodeZ == 90

isoformat(tm) ==
    LET sec == tm \div UsecPerSec
        usec == tm % UsecPerSec
    IN  IF usec = 0
        THEN <<CodeZero + sec>>
        ELSE <<CodeZero + sec, CodeDot, CodeZero + usec>>

iso_utc_now(tm) == isoformat(tm) \o <<CodeZ>>

\* a < b on Python strings (lexicographic on the character codes)
RECURSIVE StrLess(_, _)
StrLess(a, b) ==
    IF b = <<>> THEN FALSE
    ELSE IF a = <<>> THEN TRUE
    ELSE IF Head(a) # Head(b) THEN Head(a) < Head(b)
    ELSE StrLess(Tail(a), Tail(b))

\* what the wall clock may return on its next reading
ClockReads == {tm \in Times : clock <= tm}

(***************************************************************************)
(* Requests.  A header that is absent reads as None; None and the empty    *)
(* string behave alike in every use the code makes of a header value       *)
(* ("not key", "not in VALID_API_KEYS"), so NoHeader stands for both.      *)
(* body.dict tells whether get_json() returned a dict; a key the body      *)
(* lacks reads as JNull, as data.get() returns None for it.                *)
(***************************************************************************)
NoHeader == ""

VALID_API_KEYS == {"test_secret_123"}

Headers(api_key, idem, idem_key) ==
    [X_API_Key |-> api_key, Idempotency |-> idem, Idempotency_Key |-> idem_key]

Body(is_dict, name, email, customer_id, amount, description) ==
    [dict |-> is_dict, name |-> name, email |-> email,
     customer_id |-> customer_id, amount |-> amount,
     description |-> description]

NoBody == Body(FALSE, JNull, JNull, JNull, JNull, JNull)

Req(op, headers, customer_id, body, limit) ==
    [op |-> op, headers |-> headers, customer_id |-> customer_id,
     body |-> body, limit |-> limit]

\* uuid strings: kind keeps the ids of customers, charges and transactions
\* apart, i is the serial number of the id within its kind
Uuid(kind, n) == [t |-> "id", i |-> n, s |-> <<kind>>]

\* str(uuid.uuid4()): an id no entry of the store carries yet
uuid4(kind, used) == Uuid(kind, used + 1)

(***************************************************************************)
(* Responses: a status code and a JSON body.                               *)
(***************************************************************************)
Response(status, body) == [status |-> status, body |-> body]

NoResponse == Response(0, [kind |-> "none"])

error_response(message, status_code, error_type) ==
    Response(status_code,
             [kind |-> "error", type |-> error_type, message |-> message])

\* what Flask answers when a handler raises
InternalServerError == Response(500, [kind |-> "html"])

(***************************************************************************)
(* Validation helpers.  A result is the pair (is_valid, error_message), or *)
(* raised = TRUE when the helper raises instead of returning.              *)
(***************************************************************************)
Valid == [raised |-> FALSE, ok |-> TRUE, msg |-> "None"]
Invalid(msg) == [raised |-> FALSE, ok |-> FALSE, msg |-> msg]
Raised == [raised |-> TRUE, ok |-> FALSE, msg |-> "AttributeError"]

\* line 67: not isinstance(email, str) and not email.strip()
\* (the right operand is evaluated, and raises, exactly when email is no str)
EmailCheckRaises(email) == ~IsStr(email)

validate_customer_payload(data) ==
    IF ~data.dict THEN Invalid("Request body must be a JSON object.")
    ELSE IF ~IsStr(data.name) \/ strip(Chars(data.name)) = <<>>
    THEN Invalid("Name is required and must be a non-empty string.")
    ELSE IF EmailCheckRaises(data.email) THEN Raised
    ELSE IF ~Contains(Chars(data.email), "@")
    THEN Invalid("Email must contain '@'.")
    ELSE Valid

\* the amount check with < 0 for <= 0
BadAmountAllowsZero(amount) == ~IsInt(amount) \/ amount.i < 0

\* line 90 and line 336: not isinstance(amount, int) or amount <= 0
BadAmount(amount) == ~IsInt(amount) \/ amount.i <= 0

validate_add_funds_payload(data) ==
    IF ~data.dict THEN Invalid("Request body must be a JSON object.")
    ELSE IF BadAmount(data.amount)
    THEN Invalid("Amount is required, must to be an integer and must be greater than 0.")
    ELSE IF data.description.t # "null"
            /\ (~IsStr(data.description)
                \/ strip(Chars(data.description)) = <<>>)
    THEN Invalid("Description must be non-empty string.")
    ELSE Valid

\* CUSTOMERS.get(customer_id) raises TypeError on an unhashable key
Unhashable(v) == v.t = "list"

\* CUSTOMERS.get(customer_id) is not None
KnownCustomer(customer_id) == customer_id \in DOMAIN CUSTOMERS

\* the error half of get_customer_or_404
NotFound404 ==
    error_response("Customer with {customer_id} not found.", 404, "not_found")

\* require_api_key letting a request without the header through
AuthorizedOrNoKey(req) ==
    req.headers.X_API_Key = NoHeader \/ req.headers.X_API_Key \in VALID_API_KEYS

\* require_api_key: the wrapper lets the request through
Authorized(req) == req.headers.X_API_Key \in VALID_API_KEYS

Unauthorized401 ==
    error_response("Invalid or missing API key.", 401, "unauthorized")

(***************************************************************************)
(* Idempotency helpers.                                                    *)
(***************************************************************************)
\* the header check_idempotency reads
LookupKey(req) == req.headers.Idempotency

\* check_idempotency() returns (response, True)
IsReplay(req) ==
    LookupKey(req) # NoHeader /\ LookupKey(req) \in DOMAIN IDEMPOTENCY_STORE

\* jsonify(entry["body"], entry["status_code"]): both arguments end up in the
\* body, as a two-element array, and the status is the default 200
ReplayResponse(req) ==
    LET entry == IDEMPOTENCY_STORE[LookupKey(req)]
    IN  Response(200, [kind |-> "array", first |-> entry.body,
                       second |-> entry.status_code])

\* the store after store_idempotent_response(body, status_code); no handler
\* calls it
store_idempotent_response(req, body, status_code) ==
    LET key == req.headers.Idempotency_Key
    IN  IF key = NoHeader THEN IDEMPOTENCY_STORE
        ELSE [k \in DOMAIN IDEMPOTENCY_STORE \cup {key} |->
                IF k = key THEN [body |-> body, status_code |-> status_code]
                ELSE IDEMPOTENCY_STORE[k]]

(***************************************************************************)
(* The stores.  CUSTOMERS and CHARGES are dicts keyed by uuid string,      *)
(* TRANSACTIONS is a list, IDEMPOTENCY_STORE a dict keyed by header value. *)
(***************************************************************************)
EmptyDict == <<>>

\* d[k] = v
DictPut(d, k, v) ==
    [x \in DOMAIN d \cup {k} |-> IF x = k THEN v ELSE d[x]]

\* list(CUSTOMERS.values()): a dict lists its values in insertion order
CustomersList ==
    [n \in 1..Cardinality(DOMAIN CUSTOMERS) |-> CUSTOMERS[Uuid("c", n)]]

\* lines 206-212
NewCustomer(customer_id, data, tm) ==
    [id |-> customer_id,
     name |-> strip(Chars(data.name)),
     email |-> strip(Chars(data.email)),
     created_at |-> iso_utc_now(tm),
     balance |-> 0]

\* a record whose balance_after is the balance from before the change
TransactionStale(customer_id, kind, amount, balance_after, description, related_id, tm) ==
    [id |-> uuid4("t", Len(TRANSACTIONS)),
     customer_id |-> customer_id,
     type |-> kind,
     amount |-> amount,
     description |-> description,
     balance_after |-> IF kind = "credit" THEN balance_after - amount
                       ELSE balance_after + amount,
     related_id |-> related_id,
     created_at |-> iso_utc_now(tm)]

\* the dict record_transaction builds (lines 110-119)
Transaction(customer_id, kind, amount, balance_after, description, related_id, tm) ==
    [id |-> uuid4("t", Len(TRANSACTIONS)),
     customer_id |-> customer_id,
     type |-> kind,
     amount |-> amount,
     description |-> description,
     balance_after |-> balance_after,
     related_id |-> related_id,
     created_at |-> iso_utc_now(tm)]

\* a record put in front of the list
record_transaction_prepend(customer_id, kind, amount, balance_after, description, related_id, tm) ==
    <<Transaction(customer_id, kind, amount, balance_after, description,
                  related_id, tm)>> \o TRANSACTIONS

\* TRANSACTIONS after record_transaction(...)
record_transaction(customer_id, kind, amount, balance_after, description, related_id, tm) ==
    Append(TRANSACTIONS,
           Transaction(customer_id, kind, amount, balance_after, description,
                       related_id, tm))

\* a charge stored under the id of the customer
ChargeIdOfCustomer(charge_id, customer_id, amount, description, tm) ==
    [id |-> customer_id,
     customer_id |-> customer_id,
     amount |-> amount,
     description |-> description,
     created_at |-> iso_utc_now(tm),
     status |-> "succeeded"]

\* the dict create_charge builds (lines 346-353)
Charge(charge_id, customer_id, amount, description, tm) ==
    [id |-> charge_id,
     customer_id |-> customer_id,
     amount |-> amount,
     description |-> description,
     created_at |-> iso_utc_now(tm),
     status |-> "succeeded"]

\* a balance written to every customer
WithBalanceOfAll(customer_id, balance) ==
    [c \in DOMAIN CUSTOMERS |-> [CUSTOMERS[c] EXCEPT !.balance = balance]]

\* CUSTOMERS after customer["balance"] = balance
WithBalance(customer_id, balance) ==
    [CUSTOMERS EXCEPT ![customer_id].balance = balance]

\* a credit that leaves the balance as it was
CreditedLost(balance, amount) == balance

\* line 288: customer["balance"] += amount
Credited(balance, amount) == balance + amount

\* the funds check off by one
InsufficientFundsOffByOne(amount, balance) == amount > balance + 1

\* line 339: amount > customer['balance']
InsufficientFunds(amount, balance) == amount > balance

\* line 342: customer['balance'] -= amount
Charged(balance, amount) == balance - amount

(***************************************************************************)
(* list_customer_transactions: int(limit_param), the filter and the sort.  *)
(***************************************************************************)
DigitOf(ch) ==
    CASE ch = "0" -> 0 [] ch = "1" -> 1 [] ch = "2" -> 2 [] ch = "3" -> 3
      [] ch = "4" -> 4 [] ch = "5" -> 5 [] ch = "6" -> 6 [] ch = "7" -> 7
      [] ch = "8" -> 8 [] ch = "9" -> 9 [] OTHER -> -1

RECURSIVE DigitsValue(_, _)
DigitsValue(str, acc) ==
    IF str = <<>> THEN acc
    ELSE DigitsValue(Tail(str), 10 * acc + DigitOf(Head(str)))

AllDigits(str) == str # <<>> /\ \A k \in 1..Len(str) : DigitOf(str[k]) >= 0

\* int(text): blanks around, an optional sign, then digits; ok = FALSE is
\* ValueError
ParseInt(text) ==
    LET body == strip(text)
        signed == body # <<>> /\ Head(body) \in {"-", "+"}
        digits == IF signed THEN Tail(body) ELSE body
    IN  IF ~AllDigits(digits) THEN [ok |-> FALSE, val |-> 0]
        ELSE [ok |-> TRUE,
              val |-> IF signed /\ Head(body) = "-"
                      THEN 0 - DigitsValue(digits, 0)
                      ELSE DigitsValue(digits, 0)]

DefaultLimit == 50

\* line 387
ParseLimit(limit_param) ==
    IF limit_param.t = "null" THEN [ok |-> TRUE, val |-> DefaultLimit]
    ELSE ParseInt(limit_param.s)

\* line 394: the customer's records, in the order of TRANSACTIONS
RECURSIVE FilterByCustomer(_, _)
FilterByCustomer(txns, customer_id) ==
    IF txns = <<>> THEN <<>>
    ELSE IF Head(txns).customer_id = customer_id
    THEN <<Head(txns)>> \o FilterByCustomer(Tail(txns), customer_id)
    ELSE FilterByCustomer(Tail(txns), customer_id)

\* where a record goes in a list already sorted in descending order: behind
\* every record whose key is not smaller (list.sort is stable, also with
\* reverse=True)
RECURSIVE InsertDesc(_, _)
InsertDesc(sorted, txn) ==
    IF sorted = <<>> THEN <<txn>>
    ELSE IF StrLess(Head(sorted).created_at, txn.created_at)
    THEN <<txn>> \o sorted
    ELSE <<Head(sorted)>> \o InsertDesc(Tail(sorted), txn)

\* line 395: customer_txns.sort(key=created_at, reverse=True)
RECURSIVE SortDesc(_, _)
SortDesc(done, todo) ==
    IF todo = <<>> THEN done
    ELSE SortDesc(InsertDesc(done, Head(todo)), Tail(todo))

\* line 397: customer_txns[:limit], a new list
Slice(txns, limit) == SubSeq(txns, 1, IF limit < Len(txns) THEN limit ELSE Len(txns))

\* lines 394-399: the list that goes into the response; the slice of line 397
\* is computed and dropped
ListedTransactions(customer_id, limit) ==
    LET customer_txns == SortDesc(<<>>, FilterByCustomer(TRANSACTIONS, customer_id))
        dropped == Slice(customer_txns, limit)
    IN  customer_txns

(***************************************************************************)
(* The requests the model sends.                                           *)
(***************************************************************************)
IdemKey == "k1"

\* authorised, without and with an idempotency key: under the header the
\* client sends (Idempotency-Key) and under the one check_idempotency reads
PlainHeaders == Headers("test_secret_123", NoHeader, NoHeader)
ClientKeyHeaders == Headers("test_secret_123", NoHeader, IdemKey)
ServerKeyHeaders == Headers("test_secret_123", IdemKey, NoHeader)

\* no API key, and a wrong one
NoKeyHeaders == Headers(NoHeader, NoHeader, IdemKey)
WrongKeyHeaders == Headers("wrong", NoHeader, NoHeader)

\* ids a URL or a body may name: every id a customer can get, and a string
\* that is no customer's id
CustomerIds == {Uuid("c", n) : n \in 1..MaxCustomers}
FirstId == Uuid("c", 1)
SecondId == Uuid("c", 2)
UnknownId == JStr(<<"a">>)

GoodName == JStr(<<" ", "a">>)
GoodEmail == JStr(<<"@", " ">>)
BadNames == {JNull, JInt(1), JStr(<<" ">>)}
BadEmails == {JNull, JInt(1), JStr(<<>>), JStr(<<"a">>)}

GoodAmounts == {JInt(1), JInt(2)}
BadAmounts == {JNull, JStr(<<"1">>), JInt(0), JInt(-1)}
BadDescriptions == {JInt(1), JStr(<<" ">>)}
GoodDescription == JStr(<<"x">>)
Limits == {JNull, JStr(<<"x">>), JStr(<<"0">>), JStr(<<"-", "1">>),
           JStr(<<"1">>), JStr(<<" ", "2">>)}

CustomerBody(name, email) == Body(TRUE, name, email, JNull, JNull, JNull)
CreditBody(amount, description) ==
    Body(TRUE, JNull, JNull, JNull, amount, description)
ChargeBody(customer_id, amount, description) ==
    Body(TRUE, JNull, JNull, customer_id, amount, description)

CreateRequests(h) ==
    {Req("create_customer", h, JNull, b, JNull) :
       b \in {NoBody, CustomerBody(GoodName, GoodEmail)}
               \cup {CustomerBody(n, GoodEmail) : n \in BadNames}
               \cup {CustomerBody(GoodName, e) : e \in BadEmails}}

CreditRequests(h) ==
    {Req("credit_customer", h, FirstId, b, JNull) :
       b \in {NoBody}
               \cup {CreditBody(a, JNull) : a \in GoodAmounts \cup BadAmounts}
               \cup {CreditBody(JInt(1), d) : d \in BadDescriptions}}
      \cup {Req("credit_customer", h, c, CreditBody(JInt(1), GoodDescription),
                JNull) : c \in {SecondId, UnknownId}}

ChargeRequests(h) ==
    {Req("create_charge", h, JNull, b, JNull) :
       b \in {NoBody, ChargeBody(SecondId, JInt(1), JStr(<<>>))}
               \cup {ChargeBody(FirstId, a, JNull) :
                       a \in GoodAmounts \cup BadAmounts}
               \cup {ChargeBody(c, JInt(1), JNull) :
                       c \in {UnknownId, JNull, JList}}
               \cup {ChargeBody(UnknownId, JInt(0), JNull)}}

ReadRequests(h) ==
    {Req("health", h, JNull, NoBody, JNull),
     Req("list_customers", h, JNull, NoBody, JNull)}
      \cup {Req("get_customer", h, c, NoBody, JNull) :
              c \in CustomerIds \cup {UnknownId}}
      \cup {Req("list_customer_transactions", h, FirstId, NoBody, l) :
              l \in Limits}
      \cup {Req("list_customer_transactions", h, c, NoBody, JNull) :
              c \in {SecondId, UnknownId}}

\* a request of each mutating route that an authorised caller would see
\* carried out
GoodMutations(h) ==
    {Req("create_customer", h, JNull, CustomerBody(GoodName, GoodEmail), JNull),
     Req("credit_customer", h, FirstId, CreditBody(JInt(1), JNull), JNull),
     Req("create_charge", h, JNull, ChargeBody(FirstId, JInt(1), JNull), JNull)}

\* one request of each route, and one with a body that would be rejected
OnePerRoute(h) ==
    GoodMutations(h)
      \cup {Req("health", h, JNull, NoBody, JNull),
            Req("list_customers", h, JNull, NoBody, JNull),
            Req("get_customer", h, FirstId, NoBody, JNull),
            Req("list_customer_transactions", h, FirstId, NoBody, JNull),
            Req("credit_customer", h, FirstId, CreditBody(JInt(0), JNull), JNull)}

Requests ==
    CreateRequests(PlainHeaders) \cup CreditRequests(PlainHeaders)
      \cup ChargeRequests(PlainHeaders) \cup ReadRequests(PlainHeaders)
      \cup GoodMutations(ClientKeyHeaders) \cup GoodMutations(ServerKeyHeaders)
      \cup OnePerRoute(NoKeyHeaders) \cup GoodMutations(WrongKeyHeaders)

NoRequest == [op |-> "none"]

(***************************************************************************)
(* The early returns of the handlers: what a handler answers when one of   *)
(* its checks fails, NoResponse when the request passes them all.          *)
(***************************************************************************)
\* lines 126-134: the wrapper answers 401 itself or calls the view
require_api_key(req, view) == IF ~Authorized(req) THEN Unauthorized401 ELSE view

\* lines 198-202
create_customer_checks(req) ==
    LET v == validate_customer_payload(req.body)
    IN  IF v.raised THEN InternalServerError
        ELSE IF ~v.ok THEN error_response(v.msg, 400, "invalid_request")
        ELSE NoResponse

\* lines 253-256
get_customer_checks(req) ==
    IF ~KnownCustomer(req.customer_id)
    THEN error_response("Customer not found", 404, "not_found")
    ELSE NoResponse

\* lines 273-285
credit_customer_checks(req) ==
    LET v == validate_add_funds_payload(req.body)
    IN  IF IsReplay(req) THEN ReplayResponse(req)
        ELSE IF ~KnownCustomer(req.customer_id) THEN NotFound404
        ELSE IF ~v.ok THEN error_response(v.msg, 400, "invalid_request")
        ELSE NoResponse

\* lines 319-337: the checks of create_charge that do not read the balance
create_charge_validation(req) ==
    LET data == req.body
    IN  IF IsReplay(req) THEN ReplayResponse(req)
        ELSE IF ~data.dict
        THEN error_response("Request body must be a JSON object.",
                            400, "invalid_request")
        ELSE IF Unhashable(data.customer_id) THEN InternalServerError
        ELSE IF ~KnownCustomer(data.customer_id) THEN NotFound404
        ELSE IF BadAmount(data.amount)
        THEN error_response("Amount must be a non-negative integer.",
                            400, "invalid_request")
        ELSE NoResponse

\* line 340
InsufficientFunds400 ==
    error_response("Amount exceeds customer's balance.", 400, "insufficient_funds")

\* lines 319-340
create_charge_checks(req) ==
    IF create_charge_validation(req) # NoResponse
    THEN create_charge_validation(req)
    ELSE IF InsufficientFunds(req.body.amount.i,
                              CUSTOMERS[req.body.customer_id].balance)
    THEN InsufficientFunds400
    ELSE NoResponse

\* lines 379-392
list_customer_transactions_checks(req) ==
    LET limit == ParseLimit(req.limit)
    IN  IF ~KnownCustomer(req.customer_id) THEN NotFound404
        ELSE IF ~limit.ok
        THEN error_response("Limit must be an integer.", 400, "invalid_request")
        ELSE IF limit.val <= 0
        THEN error_response("Limit must be positive.", 400, "invalid_request")
        ELSE NoResponse

\* the response a request gets from the wrapper or from a failed check of its
\* view, NoResponse when the view runs to its last return
EarlyReturn(req) ==
    CASE req.op = "create_customer" ->
           require_api_key(req, create_customer_checks(req))
      [] req.op = "list_customers" -> require_api_key(req, NoResponse)
      [] req.op = "get_customer" ->
           require_api_key(req, get_customer_checks(req))
      [] req.op = "credit_customer" ->
           require_api_key(req, credit_customer_checks(req))
      [] req.op = "create_charge" ->
           require_api_key(req, create_charge_checks(req))
      [] req.op = "list_customer_transactions" ->
           require_api_key(req, list_customer_transactions_checks(req))
      [] OTHER -> NoResponse

(***************************************************************************)
(* The handlers, each run from the first line to the return.               *)
(***************************************************************************)
\* a return that goes through store_idempotent_response
ReturnStored(req, resp) ==
    /\ response' = resp
    /\ IDEMPOTENCY_STORE' = store_idempotent_response(req, resp.body, resp.status)
    /\ UNCHANGED <<CUSTOMERS, CHARGES, TRANSACTIONS, clock, threads>>

\* the handler returns resp and has changed nothing
Return(req, resp) ==
    /\ response' = resp
    /\ UNCHANGED <<stores, clock, threads>>

health(req) ==
    /\ req.op = "health"
    /\ Return(req, Response(200, [kind |-> "health", status |-> "ok"]))

create_customer(req) ==
    /\ req.op = "create_customer"
    /\ IF EarlyReturn(req) # NoResponse THEN Return(req, EarlyReturn(req))
       ELSE /\ Cardinality(DOMAIN CUSTOMERS) < MaxCustomers
            /\ \E tm \in ClockReads :
                 LET customer_id == uuid4("c", Cardinality(DOMAIN CUSTOMERS))
                     customer == NewCustomer(customer_id, req.body, tm)
                 IN  /\ CUSTOMERS' = DictPut(CUSTOMERS, customer_id, customer)
                     /\ clock' = tm
                     /\ response' =
                          Response(201, [kind |-> "customer",
                                         customer |-> customer])
                     /\ UNCHANGED <<CHARGES, TRANSACTIONS,
                                    IDEMPOTENCY_STORE, threads>>

list_customers(req) ==
    /\ req.op = "list_customers"
    /\ IF EarlyReturn(req) # NoResponse THEN Return(req, EarlyReturn(req))
       ELSE Return(req, Response(200, [kind |-> "customers",
                                       customers |-> CustomersList]))

get_customer(req) ==
    /\ req.op = "get_customer"
    /\ IF EarlyReturn(req) # NoResponse THEN Return(req, EarlyReturn(req))
       ELSE Return(req, Response(200, [kind |-> "customer",
                                       customer |-> CUSTOMERS[req.customer_id]]))

credit_customer(req) ==
    /\ req.op = "credit_customer"
    /\ IF EarlyReturn(req) # NoResponse THEN Return(req, EarlyReturn(req))
       ELSE /\ Len(TRANSACTIONS) < MaxTxns
            /\ \E tm \in ClockReads :
                 LET customer_id == req.customer_id
                     amount == req.body.amount.i
                     balance_after ==
                         Credited(CUSTOMERS[customer_id].balance, amount)
                 IN  /\ CUSTOMERS' = WithBalance(customer_id, balance_after)
                     /\ TRANSACTIONS' =
                          record_transaction(customer_id, "credit", amount,
                                             balance_after,
                                             req.body.description, JNull, tm)
                     /\ clock' = tm
                     /\ response' =
                          Response(200, [kind |-> "customer",
                                         customer |-> CUSTOMERS'[customer_id]])
                     /\ UNCHANGED <<CHARGES, IDEMPOTENCY_STORE, threads>>

create_charge(req) ==
    /\ req.op = "create_charge"
    /\ IF EarlyReturn(req) # NoResponse THEN Return(req, EarlyReturn(req))
       ELSE /\ Len(TRANSACTIONS) < MaxTxns
            /\ \E tm1 \in ClockReads :
               \E tm2 \in {tm \in Times : tm1 <= tm} :
                 LET data == req.body
                     customer_id == data.customer_id
                     amount == data.amount.i
                     balance_after ==
                         Charged(CUSTOMERS[customer_id].balance, amount)
                     charge_id == uuid4("h", Cardinality(DOMAIN CHARGES))
                     charge == Charge(charge_id, customer_id, amount,
                                      data.description, tm1)
                 IN  /\ CUSTOMERS' = WithBalance(customer_id, balance_after)
                     /\ CHARGES' = DictPut(CHARGES, charge_id, charge)
                     /\ TRANSACTIONS' =
                          record_transaction(customer_id, "charge", amount,
                                             balance_after, data.description,
                                             charge_id, tm2)
                     /\ clock' = tm2
                     /\ response' =
                          Response(201, [kind |-> "charge", charge |-> charge])
                     /\ UNCHANGED <<IDEMPOTENCY_STORE, threads>>

\* a list that sorts TRANSACTIONS itself and keeps what it answers
list_customer_transactions_in_place(req) ==
    /\ req.op = "list_customer_transactions"
    /\ IF EarlyReturn(req) # NoResponse THEN Return(req, EarlyReturn(req))
       ELSE LET listed == ListedTransactions(req.customer_id,
                                             ParseLimit(req.limit).val)
            IN  /\ response' = Response(200, [kind |-> "transactions",
                                              transactions |-> listed])
                /\ TRANSACTIONS' = listed
                /\ UNCHANGED <<CUSTOMERS, CHARGES, IDEMPOTENCY_STORE,
                               clock, threads>>

list_customer_transactions(req) ==
    /\ req.op = "list_customer_transactions"
    /\ IF EarlyReturn(req) # NoResponse THEN Return(req, EarlyReturn(req))
       ELSE Return(req,
                   Response(200,
                            [kind |-> "transactions",
                             transactions |->
                               ListedTransactions(req.customer_id,
                                                  ParseLimit(req.limit).val)]))

\* a worker thread: where it stands in its handler (pc), its request, and the
\* handler's locals (loaded: the balance read by the augmented assignment of
\* line 288 or 342 before it is written back)
Thread(pc, req, loaded, balance_after, charge, resp) ==
    [pc |-> pc, req |-> req, loaded |-> loaded,
     balance_after |-> balance_after, charge |-> charge, resp |-> resp]

NoCharge == [id |-> JNull]

Idle == Thread("idle", NoRequest, 0, 0, NoCharge, NoResponse)

Init ==
    /\ CUSTOMERS = EmptyDict
    /\ CHARGES = EmptyDict
    /\ TRANSACTIONS = <<>>
    /\ IDEMPOTENCY_STORE = EmptyDict
    /\ clock = 0
    /\ request = NoRequest
    /\ response = NoResponse
    /\ threads = [th \in 1..NumThreads |-> Idle]

\* a request arrives and its route runs its handler; the requests are served
\* one after the other
Next ==
    \E req \in Requests :
        \/ (health(req) /\ UNCHANGED request)
        \/ (create_customer(req) /\ UNCHANGED request)
        \/ (list_customers(req) /\ UNCHANGED request)
        \/ (get_customer(req) /\ UNCHANGED request)
        \/ (credit_customer(req) /\ UNCHANGED request)
        \/ (create_charge(req) /\ UNCHANGED request)
        \/ (list_customer_transactions(req) /\ UNCHANGED request)

Spec == Init /\ [][Next]_vars

\* what a client that retries sends: each request of JotsClient with and
\* without an idempotency key, and the reads
RetryRequests ==
    OnePerRoute(PlainHeaders) \cup GoodMutations(ClientKeyHeaders)
      \cup GoodMutations(ServerKeyHeaders)

\* the same handlers, with the request of the last step kept in request
NextRetry ==
    \E req \in RetryRequests :
        \/ (health(req) /\ request' = req)
        \/ (create_customer(req) /\ request' = req)
        \/ (list_customers(req) /\ request' = req)
        \/ (get_customer(req) /\ request' = req)
        \/ (credit_customer(req) /\ request' = req)
        \/ (create_charge(req) /\ request' = req)
        \/ (list_customer_transactions(req) /\ request' = req)

SpecRetry == Init /\ [][NextRetry]_vars

(***************************************************************************)
(* Handlers in parallel threads.  credit_customer and create_charge run in *)
(* worker threads, one step per read or write of the shared stores; the    *)
(* augmented assignments of lines 288 and 342 are a read followed by a     *)
(* write.                                                                  *)
(***************************************************************************)
ThreadIds == 1..NumThreads

Active(th) == threads[th].pc \notin {"idle", "done"}

NumActive == Cardinality({th \in ThreadIds : Active(th)})

\* the customer a thread's request names
CustomerOf(req) ==
    IF req.op = "create_charge" THEN req.body.customer_id ELSE req.customer_id

ConcRequests ==
    {Req("credit_customer", PlainHeaders, FirstId, CreditBody(a, JNull), JNull) :
       a \in GoodAmounts}
      \cup {Req("create_charge", PlainHeaders, JNull,
                ChargeBody(FirstId, a, JNull), JNull) : a \in GoodAmounts}
      \cup {Req("create_charge", PlainHeaders, JNull,
                ChargeBody(UnknownId, JInt(1), JNull), JNull)}

SetThread(th, val) ==
    /\ threads' = [threads EXCEPT ![th] = val]
    /\ UNCHANGED <<request, response>>

\* a thread returns resp
Done(th, resp) ==
    SetThread(th, [threads[th] EXCEPT !.pc = "done", !.resp = resp])

\* lines 262-285 and 307-337: everything before the first use of the balance
Start(th, req) ==
    /\ threads[th].pc = "idle"
    /\ Len(TRANSACTIONS) + NumActive < MaxConcTxns
    /\ LET t0 == [Idle EXCEPT !.req = req]
           early == IF req.op = "credit_customer"
                    THEN require_api_key(req, credit_customer_checks(req))
                    ELSE require_api_key(req, create_charge_validation(req))
       IN  SetThread(th,
             IF early # NoResponse
             THEN [t0 EXCEPT !.pc = "done", !.resp = early]
             ELSE IF req.op = "credit_customer" THEN [t0 EXCEPT !.pc = "load"]
             ELSE [t0 EXCEPT !.pc = "check"])
    /\ UNCHANGED <<stores, clock>>

\* line 339 - 340
CheckFunds(th) ==
    LET req == threads[th].req
    IN  /\ threads[th].pc = "check"
        /\ IF InsufficientFunds(req.body.amount.i,
                                CUSTOMERS[CustomerOf(req)].balance)
           THEN Done(th, InsufficientFunds400)
           ELSE SetThread(th, [threads[th] EXCEPT !.pc = "load"])
        /\ UNCHANGED <<stores, clock>>

\* lines 288 and 342, first half: read customer["balance"]
LoadBalance(th) ==
    /\ threads[th].pc = "load"
    /\ SetThread(th, [threads[th] EXCEPT
                        !.pc = "store",
                        !.loaded = CUSTOMERS[CustomerOf(threads[th].req)].balance])
    /\ UNCHANGED <<stores, clock>>

\* lines 288 and 342, second half: write customer["balance"]
StoreBalance(th) ==
    LET req == threads[th].req
        amount == req.body.amount.i
    IN  /\ threads[th].pc = "store"
        /\ CUSTOMERS' =
             WithBalance(CustomerOf(req),
                         IF req.op = "credit_customer"
                         THEN Credited(threads[th].loaded, amount)
                         ELSE Charged(threads[th].loaded, amount))
        /\ SetThread(th, [threads[th] EXCEPT !.pc = "after"])
        /\ UNCHANGED <<CHARGES, TRANSACTIONS, IDEMPOTENCY_STORE, clock>>

\* lines 290 and 343: balance_after = customer["balance"]
ReadBalanceAfter(th) ==
    LET req == threads[th].req
    IN  /\ threads[th].pc = "after"
        /\ SetThread(th, [threads[th] EXCEPT
                            !.pc = IF req.op = "credit_customer"
                                   THEN "record" ELSE "charge",
                            !.balance_after = CUSTOMERS[CustomerOf(req)].balance])
        /\ UNCHANGED <<stores, clock>>

\* lines 345-355
StoreCharge(th) ==
    LET req == threads[th].req
    IN  /\ threads[th].pc = "charge"
        /\ \E tm \in ClockReads :
             LET charge_id == uuid4("h", Cardinality(DOMAIN CHARGES))
                 charge == Charge(charge_id, CustomerOf(req), req.body.amount.i,
                                  req.body.description, tm)
             IN  /\ CHARGES' = DictPut(CHARGES, charge_id, charge)
                 /\ clock' = tm
                 /\ SetThread(th, [threads[th] EXCEPT !.pc = "record",
                                                      !.charge = charge])
        /\ UNCHANGED <<CUSTOMERS, TRANSACTIONS, IDEMPOTENCY_STORE>>

\* lines 294-301 and 357-364
RecordTransaction(th) ==
    LET req == threads[th].req
    IN  /\ threads[th].pc = "record"
        /\ \E tm \in ClockReads :
             /\ TRANSACTIONS' =
                  IF req.op = "credit_customer"
                  THEN record_transaction(CustomerOf(req), "credit",
                                          req.body.amount.i,
                                          threads[th].balance_after,
                                          req.body.description, JNull, tm)
                  ELSE record_transaction(CustomerOf(req), "charge",
                                          req.body.amount.i,
                                          threads[th].balance_after,
                                          req.body.description,
                                          threads[th].charge.id, tm)
             /\ clock' = tm
        /\ SetThread(th, [threads[th] EXCEPT !.pc = "return"])
        /\ UNCHANGED <<CUSTOMERS, CHARGES, IDEMPOTENCY_STORE>>

\* lines 303 and 366
ReturnResponse(th) ==
    LET req == threads[th].req
    IN  /\ threads[th].pc = "return"
        /\ Done(th, IF req.op = "credit_customer"
                    THEN Response(200, [kind |-> "customer",
                                        customer |-> CUSTOMERS[CustomerOf(req)]])
                    ELSE Response(201, [kind |-> "charge",
                                        charge |-> threads[th].charge]))
        /\ UNCHANGED <<stores, clock>>

\* the response is sent and the worker is free for the next request
Release(th) ==
    /\ threads[th].pc = "done"
    /\ SetThread(th, Idle)
    /\ UNCHANGED <<stores, clock>>

\* create_customer touches the stores once, in line 214
ConcCreateCustomer ==
    /\ NumActive = 0
    /\ create_customer(Req("create_customer", PlainHeaders, JNull,
                           CustomerBody(GoodName, GoodEmail), JNull))
    /\ UNCHANGED request

NextConc ==
    \/ ConcCreateCustomer
    \/ \E th \in ThreadIds :
         \/ \E req \in ConcRequests : Start(th, req)
         \/ CheckFunds(th)
         \/ LoadBalance(th)
         \/ StoreBalance(th)
         \/ ReadBalanceAfter(th)
         \/ StoreCharge(th)
         \/ RecordTransaction(th)
         \/ ReturnResponse(th)
         \/ Release(th)

SpecConc == Init /\ [][NextConc]_vars

(***************************************************************************)
(* The client's keyed credit and charge in parallel threads, and reads     *)
(* that run while the threads are at work.                                 *)
(***************************************************************************)
\* JotsClient.credit_customer and JotsClient.create_charge called with an
\* idempotency_key
ConcRetryRequests ==
    {req \in GoodMutations(ClientKeyHeaders) :
       req.op \in {"credit_customer", "create_charge"}}

\* the reads of a second caller
ConcReadRequests ==
    {Req("get_customer", PlainHeaders, FirstId, NoBody, JNull),
     Req("list_customers", PlainHeaders, JNull, NoBody, JNull),
     Req("list_customer_transactions", PlainHeaders, FirstId, NoBody, JNull)}

\* a read handler runs between two steps of the worker threads
ConcRead(req) ==
    \/ (get_customer(req) /\ UNCHANGED request)
    \/ (list_customers(req) /\ UNCHANGED request)
    \/ (list_customer_transactions(req) /\ UNCHANGED request)

NextConcRetry ==
    \/ ConcCreateCustomer
    \/ \E req \in ConcReadRequests : ConcRead(req)
    \/ \E th \in ThreadIds :
         \/ \E req \in ConcRetryRequests : Start(th, req)
         \/ CheckFunds(th)
         \/ LoadBalance(th)
         \/ StoreBalance(th)
         \/ ReadBalanceAfter(th)
         \/ StoreCharge(th)
         \/ RecordTransaction(th)
         \/ ReturnResponse(th)
         \/ Release(th)

SpecConcRetry == Init /\ [][NextConcRetry]_vars

(***************************************************************************)
(* Properties.  Under Spec the request of a step is not part of the state: *)
(* a property of a handler is stated of every step and every request the   *)
(* step can be the handling of, or, for the refusals, of the early return  *)
(* of every request in every state and of every step that answers with the *)
(* refusal.                                                                *)
(***************************************************************************)
\* the sum of the amounts of one customer's records of one kind
RECURSIVE SumOf(_, _, _)
SumOf(txns, customer_id, kind) ==
    IF txns = <<>> THEN 0
    ELSE (IF Head(txns).customer_id = customer_id /\ Head(txns).type = kind
          THEN Head(txns).amount ELSE 0)
         + SumOf(Tail(txns), customer_id, kind)

\* the indices in TRANSACTIONS of one customer's records, in append order
RecordsOf(customer_id) ==
    {k \in 1..Len(TRANSACTIONS) : TRANSACTIONS[k].customer_id = customer_id}

\* the signed amount of a record
Signed(txn) == IF txn.type = "credit" THEN txn.amount ELSE 0 - txn.amount

\* the running total of one customer's signed amounts up to record k
RECURSIVE RunningTotal(_, _)
RunningTotal(customer_id, k) ==
    IF k = 0 THEN 0
    ELSE (IF TRANSACTIONS[k].customer_id = customer_id
          THEN Signed(TRANSACTIONS[k]) ELSE 0)
         + RunningTotal(customer_id, k - 1)

\* the caller of a request shows an accepted API key
HasValidKey(req) == req.headers.X_API_Key \in VALID_API_KEYS

\* the response is the error body of the given status and type
IsError(resp, status, type) ==
    /\ resp.status = status
    /\ resp.body.kind = "error"
    /\ resp.body.type = type

\* C1: when the handlers run one after the other, every customer's balance
\* is the sum of its credit records minus the sum of its charge records, and
\* is not negative.
BalanceIsLedgerSum ==
    \A c \in DOMAIN CUSTOMERS :
        /\ CUSTOMERS[c].balance =
             SumOf(TRANSACTIONS, c, "credit") - SumOf(TRANSACTIONS, c, "charge")
        /\ CUSTOMERS[c].balance >= 0

\* a customer was credited 2 and then charged 1
BalanceIsLedgerSumWitness ==
    \E c \in DOMAIN CUSTOMERS :
        /\ CUSTOMERS[c].balance = 1
        /\ SumOf(TRANSACTIONS, c, "credit") = 2
        /\ SumOf(TRANSACTIONS, c, "charge") = 1

\* C2: replaying a customer's signed amounts from 0, in append order, gives
\* after each record that record's balance_after.
ReplayReproducesBalanceAfter ==
    \A c \in DOMAIN CUSTOMERS :
        \A k \in RecordsOf(c) :
            RunningTotal(c, k) = TRANSACTIONS[k].balance_after

\* a charge was recorded behind a credit of the same customer, and a credit
\* of another customer in between or around them
ReplayReproducesBalanceAfterWitness ==
    \E j, k \in 1..Len(TRANSACTIONS) :
        /\ j < k
        /\ TRANSACTIONS[j].customer_id = TRANSACTIONS[k].customer_id
        /\ TRANSACTIONS[j].type = "credit"
        /\ TRANSACTIONS[k].type = "charge"
        /\ TRANSACTIONS[k].balance_after = 1

\* C3: a credit or charge sent a second time, right after the first, with
\* the same Idempotency-Key gets the first response again and changes neither
\* a balance nor the ledger.
IdempotentReplay ==
    [][(/\ request.op \in {"credit_customer", "create_charge"}
        /\ request.headers.Idempotency_Key # NoHeader
        /\ HasValidKey(request)
        /\ request' = request)
       => (/\ response' = response
           /\ CUSTOMERS' = CUSTOMERS
           /\ TRANSACTIONS' = TRANSACTIONS)]_vars

\* C4: charges that run in parallel threads never leave a customer with a
\* negative balance.
ConcurrentChargesNeverOverdraw ==
    \A c \in DOMAIN CUSTOMERS : ~(CUSTOMERS[c].balance < 0)

\* what the claims call a positive integer amount
IsPositiveInt(v) == v.t = "int" /\ v.i > 0

\* a charge of an existing customer, by an authorised caller, for a positive
\* integer amount above the balance
Overdraft(req) ==
    /\ req.op = "create_charge"
    /\ HasValidKey(req)
    /\ req.body.dict
    /\ req.body.customer_id \in DOMAIN CUSTOMERS
    /\ IsPositiveInt(req.body.amount)
    /\ req.body.amount.i > CUSTOMERS[req.body.customer_id].balance

\* C5: a charge of an existing customer for a positive integer amount above
\* the balance is answered 400 insufficient_funds (the caller being
\* authorised), and a step answered 400 insufficient_funds changes neither a
\* balance nor TRANSACTIONS nor CHARGES.
OverdraftIsRejected ==
    /\ [](\A req \in Requests :
            Overdraft(req)
            => IsError(EarlyReturn(req), 400, "insufficient_funds"))
    /\ [][IsError(response', 400, "insufficient_funds")
          => UNCHANGED <<CUSTOMERS, TRANSACTIONS, CHARGES>>]_vars

\* the only customer there is has a balance of 1 and was refused a charge
OverdraftIsRejectedWitness ==
    /\ DOMAIN CUSTOMERS = {FirstId}
    /\ CUSTOMERS[FirstId].balance = 1
    /\ IsError(response, 400, "insufficient_funds")

\* the customer's records from the newest to the oldest, by append order
RECURSIVE NewestFirst(_)
NewestFirst(txns) ==
    IF txns = <<>> THEN <<>>
    ELSE <<txns[Len(txns)]>> \o NewestFirst(SubSeq(txns, 1, Len(txns) - 1))

\* the limit a list request asks for: the number in the parameter, 50 when
\* it is absent, 0 for a parameter the handler refuses
AskedLimit(limit_param) ==
    CASE limit_param = JNull -> 50
      [] limit_param = JStr(<<"1">>) -> 1
      [] limit_param = JStr(<<" ", "2">>) -> 2
      [] OTHER -> 0

\* C6: a list of an existing customer's transactions with limit N holds at
\* most N records, and exactly the N most recent ones when the customer has
\* more than N.
ListHonoursLimit ==
    [][\A req \in Requests :
         (/\ req.op = "list_customer_transactions"
          /\ HasValidKey(req)
          /\ req.customer_id \in DOMAIN CUSTOMERS
          /\ AskedLimit(req.limit) > 0
          /\ list_customer_transactions(req))
         => LET N == AskedLimit(req.limit)
                mine == NewestFirst(SelectSeq(TRANSACTIONS,
                            LAMBDA t : t.customer_id = req.customer_id))
                listed == response'.body.transactions
            IN  /\ response'.status = 200
                /\ response'.body.kind = "transactions"
                /\ Len(listed) <= N
                /\ Len(mine) > N
                     => {listed[k].id : k \in 1..Len(listed)}
                        = {mine[k].id : k \in 1..N}]_vars

\* the defects of a credit or charge body the claims list
IsBadAmount(v) == v.t # "int" \/ v.i <= 0

IsBadDescription(v) ==
    v.t # "null" /\ (v.t # "str" \/ \A k \in 1..Len(v.s) : v.s[k] = " ")

\* a credit the code has to refuse: 404 for an unknown customer, else 400
CreditRefusal(req) ==
    IF req.customer_id \notin DOMAIN CUSTOMERS THEN <<404, "not_found">>
    ELSE IF ~req.body.dict \/ IsBadAmount(req.body.amount)
            \/ IsBadDescription(req.body.description)
    THEN <<400, "invalid_request">>
    ELSE <<0, "none">>

\* a charge the code has to refuse; the description of a charge is never
\* looked at, and an id that is no string (a JSON array) is no customer id
ChargeRefusal(req) ==
    IF ~req.body.dict THEN <<400, "invalid_request">>
    ELSE IF req.body.customer_id.t = "list" THEN <<0, "none">>
    ELSE IF req.body.customer_id \notin DOMAIN CUSTOMERS
    THEN <<404, "not_found">>
    ELSE IF IsBadAmount(req.body.amount) THEN <<400, "invalid_request">>
    ELSE <<0, "none">>

Refusal(req) ==
    IF req.op = "credit_customer" THEN CreditRefusal(req) ELSE ChargeRefusal(req)

CreateCustomerIsIdempotent ==
    [][(/\ request.op = "create_customer"
        /\ HasValidKey(request)
        /\ \/ request.headers.Idempotency_Key # NoHeader
           \/ request.headers.Idempotency # NoHeader
        /\ request' = request)
       => (/\ response' = response
           /\ CUSTOMERS' = CUSTOMERS)]_vars

ProtectedOps ==
    {"create_customer", "list_customers", "get_customer", "credit_customer",
     "create_charge", "list_customer_transactions"}

\* C9: a request to a protected route without an accepted X-API-Key is
\* answered 401 unauthorized, whatever its body and headers, and a step
\* answered 401 unauthorized changes none of the four stores.
UnauthorizedIsRejectedFirst ==
    /\ [](\A req \in Requests :
            (req.op \in ProtectedOps /\ ~HasValidKey(req))
            => IsError(EarlyReturn(req), 401, "unauthorized"))
    /\ [][IsError(response', 401, "unauthorized") => UNCHANGED stores]_vars

\* a request was refused for its API key while a customer had a balance that
\* covers the charge and the credit the model sends without a key
UnauthorizedIsRejectedFirstWitness ==
    /\ FirstId \in DOMAIN CUSTOMERS
    /\ CUSTOMERS[FirstId].balance >= 1
    /\ Len(TRANSACTIONS) < MaxTxns
    /\ IsError(response, 401, "unauthorized")

\* a name or an email the claim has create_customer refuse
IsBadName(v) == v.t # "str" \/ \A k \in 1..Len(v.s) : v.s[k] = " "

IsBadEmail(v) == v.t # "str" \/ v.s = <<>> \/ \A k \in 1..Len(v.s) : v.s[k] # "@"

\* C10: create_customer answers 400 invalid_request and leaves CUSTOMERS alone
\* when the name is missing, no string, empty or blank, or the email is
\* missing, no string, empty or without '@'; otherwise it adds exactly one
\* customer, with a fresh id and a balance of 0.
CreateCustomerValidates ==
    [][\A req \in Requests :
         (/\ req.op = "create_customer"
          /\ HasValidKey(req)
          /\ create_customer(req))
         => IF ~req.body.dict \/ IsBadName(req.body.name)
               \/ IsBadEmail(req.body.email)
            THEN /\ IsError(response', 400, "invalid_request")
                 /\ CUSTOMERS' = CUSTOMERS
            ELSE \E c \in DOMAIN CUSTOMERS' :
                   /\ c \notin DOMAIN CUSTOMERS
                   /\ DOMAIN CUSTOMERS' = DOMAIN CUSTOMERS \cup {c}
                   /\ CUSTOMERS'[c].balance = 0
                   /\ \A d \in DOMAIN CUSTOMERS : CUSTOMERS'[d] = CUSTOMERS[d]]_vars

\* the request carries an idempotency key, under either header
Keyed(req) ==
    req.headers.Idempotency_Key # NoHeader \/ req.headers.Idempotency # NoHeader

\* the thread has written the balance its request asks for
Wrote(th) ==
    \/ threads[th].pc \in {"after", "charge", "record", "return"}
    \/ /\ threads[th].pc = "done"
       /\ threads[th].resp.body.kind \in {"customer", "charge"}

\* C11: of two threads at work on the same credit or charge with the same
\* idempotency key, at most one carries out the mutation, and when one has
\* carried it out and both have returned, they have returned the same
\* response.
ConcurrentRetriesExecuteOnce ==
    \A t1, t2 \in ThreadIds :
        (/\ t1 # t2
         /\ threads[t1].req = threads[t2].req
         /\ threads[t1].req.op \in {"credit_customer", "create_charge"}
         /\ Keyed(threads[t1].req))
        => /\ ~(Wrote(t1) /\ Wrote(t2))
           /\ (Wrote(t1) /\ threads[t1].pc = "done" /\ threads[t2].pc = "done")
                => threads[t1].resp = threads[t2].resp

\* C12: a read that runs while credits and charges are at work in other
\* threads finds every balance equal to what the records of TRANSACTIONS add
\* up to: no balance changed without its record, no record without its
\* balance change.
ReadersSeeWholeMutations ==
    [][(\E req \in ConcReadRequests : ConcRead(req))
       => \A c \in DOMAIN CUSTOMERS :
            CUSTOMERS[c].balance =
              SumOf(TRANSACTIONS, c, "credit") - SumOf(TRANSACTIONS, c, "charge")]_vars

\* the response refuses a credit or charge
IsRejection(resp) ==
    \/ IsError(resp, 400, "invalid_request")
    \/ IsError(resp, 404, "not_found")
    \/ IsError(resp, 400, "insufficient_funds")

\* the idempotency keys a request carries
KeysOf(req) == {req.headers.Idempotency_Key, req.headers.Idempotency} \ {NoHeader}

\* C13: once a credit or charge that carries a key has been refused, the
\* refusal is stored under the key, body and status; and a credit or charge
\* whose key has an entry is answered with the entry and changes nothing.
RejectionIsCached ==
    /\ []((/\ request.op \in {"credit_customer", "create_charge"}
           /\ HasValidKey(request)
           /\ KeysOf(request) # {}
           /\ IsRejection(response))
          => \E k \in KeysOf(request) \cap DOMAIN IDEMPOTENCY_STORE :
               IDEMPOTENCY_STORE[k] =
                 [body |-> response.body, status_code |-> response.status])
    /\ [][(/\ request'.op \in {"credit_customer", "create_charge"}
           /\ HasValidKey(request')
           /\ KeysOf(request') \cap DOMAIN IDEMPOTENCY_STORE # {})
          => /\ \E k \in KeysOf(request') \cap DOMAIN IDEMPOTENCY_STORE :
                  response' = Response(IDEMPOTENCY_STORE[k].status_code,
                                       IDEMPOTENCY_STORE[k].body)
             /\ UNCHANGED stores]_vars

\* one sequence is the beginning of the other
IsPrefix(a, b) == Len(a) <= Len(b) /\ SubSeq(b, 1, Len(a)) = a

\* C14: every step leaves the records TRANSACTIONS held before it where they
\* were and as they were, and adds records only at the end.
LedgerIsAppendOnly == [][IsPrefix(TRANSACTIONS, TRANSACTIONS')]_vars

\* a list has answered two records in another order than TRANSACTIONS holds
\* them, and TRANSACTIONS still holds them in the order of their append
LedgerIsAppendOnlyWitness ==
    /\ Len(TRANSACTIONS) = 2
    /\ TRANSACTIONS[1].id = Uuid("t", 1)
    /\ TRANSACTIONS[2].id = Uuid("t", 2)
    /\ response.status = 200
    /\ response.body.kind = "transactions"
    /\ Len(response.body.transactions) = 2
    /\ response.body.transactions # TRANSACTIONS

\* the place of a record in TRANSACTIONS: ids are handed out in append order
AppendIndex(txn) == txn.id.i

\* C15: the created_at of one customer's records never decreases in append
\* order, and a list of a customer's transactions answers the records from
\* the one appended last to the one appended first, also where two records
\* carry the same created_at.
ListIsNewestFirst ==
    /\ [](\A j, k \in 1..Len(TRANSACTIONS) :
            (j < k /\ TRANSACTIONS[j].customer_id = TRANSACTIONS[k].customer_id)
            => ~StrLess(TRANSACTIONS[k].created_at, TRANSACTIONS[j].created_at))
    /\ [][\A req \in Requests :
            (/\ req.op = "list_customer_transactions"
             /\ HasValidKey(req)
             /\ list_customer_transactions(req)
             /\ response'.status = 200)
            => LET listed == response'.body.transactions
               IN  \A i, j \in 1..Len(listed) :
                     i < j => AppendIndex(listed[i]) > AppendIndex(listed[j])]_vars

\* the indices of the charge records that point at one charge
RecordsOfCharge(charge_id) ==
    {k \in 1..Len(TRANSACTIONS) :
       TRANSACTIONS[k].type = "charge" /\ TRANSACTIONS[k].related_id = charge_id}

CustomerFieldsAreStable ==
    [][\A c \in DOMAIN CUSTOMERS :
         /\ c \in DOMAIN CUSTOMERS'
         /\ CUSTOMERS'[c].id = CUSTOMERS[c].id
         /\ CUSTOMERS'[c].name = CUSTOMERS[c].name
         /\ CUSTOMERS'[c].email = CUSTOMERS[c].email
         /\ CUSTOMERS'[c].created_at = CUSTOMERS[c].created_at
         /\ CUSTOMERS'[c].balance # CUSTOMERS[c].balance
              => /\ \E req \in Requests :
                      /\ req.op \in {"credit_customer", "create_charge"}
                      /\ CustomerOf(req) = c
                      /\ credit_customer(req) \/ create_charge(req)
                 /\ \A d \in DOMAIN CUSTOMERS \ {c} :
                      CUSTOMERS'[d].balance = CUSTOMERS[d].balance]_vars

\* two customers, each credited once with an amount of its own
CustomerFieldsAreStableWitness ==
    /\ DOMAIN CUSTOMERS = {FirstId, SecondId}
    /\ CUSTOMERS[FirstId].balance = 2
    /\ CUSTOMERS[SecondId].balance = 1

\* the response carries out the credit or charge it answers
IsCarriedOut(req, resp) ==
    \/ req.op = "credit_customer" /\ resp.status = 200 /\ resp.body.kind = "customer"
    \/ req.op = "create_charge" /\ resp.status = 201 /\ resp.body.kind = "charge"

\* C18: a charge that follows a completed credit and carries the credit's
\* idempotency key, in the same header, is answered with the response of the
\* credit and changes no balance and adds no record and no charge; and the
\* same with a credit that follows a completed charge.
KeyNamespaceIsGlobal ==
    [][(/\ request.op \in {"credit_customer", "create_charge"}
        /\ request'.op \in {"credit_customer", "create_charge"}
        /\ request'.op # request.op
        /\ HasValidKey(request)
        /\ KeysOf(request) # {}
        /\ request'.headers = request.headers
        /\ IsCarriedOut(request, response))
       => (/\ response' = response
           /\ UNCHANGED <<CUSTOMERS, TRANSACTIONS, CHARGES>>)]_vars

ReadOps == {"get_customer", "list_customers", "list_customer_transactions"}

\* C20: a step that changes CUSTOMERS, CHARGES, TRANSACTIONS or
\* IDEMPOTENCY_STORE is not the handling of a get_customer, list_customers or
\* list_customer_transactions, whether answered or refused.
ReadsChangeNothing ==
    [][~UNCHANGED stores
       => \A req \in Requests :
            req.op \in ReadOps
            => ~(\/ get_customer(req)
                 \/ list_customers(req)
                 \/ list_customer_transactions(req))]_vars

\* a list of the transactions of a customer with two records that carry
\* different created_at was answered
ReadsChangeNothingWitness ==
    /\ Len(TRANSACTIONS) = 2
    /\ TRANSACTIONS[1].customer_id = TRANSACTIONS[2].customer_id
    /\ TRANSACTIONS[1].created_at # TRANSACTIONS[2].created_at
    /\ response.status = 200
    /\ response.body.kind = "transactions"
    /\ Len(response.body.transactions) = 2

====
